---------------------------- MODULE Spec2Model ----------------------------
(***************************************************************************)
(* MiniGit: a model of the repository's programs.                          *)
(*                                                                         *)
(* The repository holds several stand-alone programs that share one        *)
(* on-disk layout (.minigit).  The variable prog says which of them is     *)
(* being run:                                                              *)
(*   "Project"  src/MiniGit-Project.cpp   (SHA-1 objects, refs/HEAD)       *)
(*   "Part002"  src/unnamed/part_002      (time-salted hashes, merge)      *)
(*                                                                         *)
(* Every string of the programs (file contents, fingerprints, ref lines,   *)
(* messages) is a TLA+ string.  A hash function is modelled as an          *)
(* injective wrapper around its pre-image: two fingerprints are equal      *)
(* exactly when the hashed strings are equal.                              *)
(***************************************************************************)
EXTENDS Integers, Sequences, FiniteSets, TLC

VARIABLES
    prog,       \* which program runs
    user,       \* what the user of this run does (see Users)
    repo,       \* does the directory .minigit exist
    heads_dir,  \* does the directory .minigit/refs/heads exist
    HEAD,       \* first line of the HEAD file, or NoFile
    heads,      \* branch name -> first line of refs/heads/<name>, or NoFile
    blobs,      \* stored blob objects: file name -> content
    commits,    \* stored commit objects: file name -> record
    index,      \* the persisted index file: path -> blob fingerprint
    staging,    \* staging_area_ of the running process
    wt,         \* working tree: path -> content, or NoFile
    now         \* wall clock, in seconds

vars == <<prog, user, repo, heads_dir, HEAD, heads, blobs, commits, index, staging, wt, now>>

----------------------------------------------------------------------------
(* Bounds of the model. *)

\* commits made by `commit`, merge commits, and seconds on the clock
MaxCommits == 3
MaxMerges == 1
MaxTime == 1

Paths == {"f", "g"}
\* std::map iterates its keys in sorted order
PathOrder == <<"", "f", "g">>
Contents == {"A", "B", "C"}
BranchNames == {"master", "main", "dev"}
Messages == {"m"}

NoFile == "<no file>"
EmptyMap == [p \in {} |-> ""]

----------------------------------------------------------------------------
(* std::string helpers *)

StartsWith(s, pre) == Len(s) >= Len(pre) /\ SubSeq(s, 1, Len(pre)) = pre
Substr(s, k) == SubSeq(s, k + 1, Len(s))
Range(q) == {q[i] : i \in 1..Len(q)}

RECURSIVE Concat(_)
Concat(q) == IF q = <<>> THEN "" ELSE Head(q) \o Concat(Tail(q))

\* the map m with key k set to v (std::map::operator[] assignment)
Put(m, k, v) == [x \in DOMAIN m \cup {k} |-> IF x = k THEN v ELSE m[x]]
\* std::map::erase
Erase(m, k) == [x \in DOMAIN m \ {k} |-> m[x]]
\* m.count(k) ? m.at(k) : ""
At(m, k) == IF k \in DOMAIN m THEN m[k] ELSE ""

\* the keys of m in iteration order
Keys(m) == SelectSeq(PathOrder, LAMBDA p : p \in DOMAIN m)



----------------------------------------------------------------------------
(* The reference files, as every program reads and writes them. *)

RefPrefix == "ref: refs/heads/"

\* the first line of the file .minigit/<path>, for a path read out of HEAD
ReadRef(path) ==
    IF StartsWith(path, "refs/heads/") /\ Substr(path, 11) \in BranchNames
    THEN heads[Substr(path, 11)]
    ELSE NoFile

\* std::ofstream on refs/heads/<name>: the write fails when the directory is missing
WriteBranch(name, line) ==
    IF heads_dir THEN [heads EXCEPT ![name] = line] ELSE heads

\* fs::remove_all of every working-tree entry except .minigit
CleanTree == [p \in Paths |-> NoFile]

----------------------------------------------------------------------------
(* src/MiniGit-Project.cpp *)

computeSHA1(content) == "sha1(" \o content \o ")"

format_timestamp(t) == "T" \o ToString(t)

\* the tracked files as calculate_hash streams them: name, fingerprint, ...
FilesConcat(files) ==
    Concat([i \in 1..Len(Keys(files)) |-> Keys(files)[i] \o files[Keys(files)[i]]])

calculate_hash(message, timestamp, parent_hash, parent_hashes, tracked_files) ==
    computeSHA1(message \o timestamp \o parent_hash \o Concat(parent_hashes)
                \o FilesConcat(tracked_files))

\* a CommitNode that carries the files of its parent over into its own
CommitNode_with_parent_files(msg, parent_h, files_map) ==
    LET ps == IF parent_h = "" THEN <<>> ELSE <<parent_h>>
        old == IF parent_h \in DOMAIN commits THEN commits[parent_h].tracked_files
               ELSE EmptyMap
        all == [p \in DOMAIN old \cup DOMAIN files_map |->
                   IF p \in DOMAIN files_map THEN files_map[p] ELSE old[p]]
    IN  [hash          |-> calculate_hash(msg, format_timestamp(now), parent_h, ps, all),
         message       |-> msg,
         timestamp     |-> format_timestamp(now),
         parent_hash   |-> parent_h,
         parent_hashes |-> ps,
         tracked_files |-> all]

\* CommitNode(msg, parent_h, files_map): the fingerprint is computed here, from the
\* fields as they are at construction
CommitNode(msg, parent_h, files_map) ==
    LET ps == IF parent_h = "" THEN <<>> ELSE <<parent_h>> IN
    [hash          |-> calculate_hash(msg, format_timestamp(now), parent_h, ps, files_map),
     message       |-> msg,
     timestamp     |-> format_timestamp(now),
     parent_hash   |-> parent_h,
     parent_hashes |-> ps,
     tracked_files |-> files_map]

\* add_parent changes the parent list and leaves the fingerprint as it was
add_parent(c, parent_h) ==
    [c EXCEPT !.parent_hashes = Append(c.parent_hashes, parent_h),
              !.parent_hash = IF Len(c.parent_hashes) = 0 THEN parent_h ELSE c.parent_hash]

\* the file commits/<hash> that save_commit_object writes (it truncates an existing one)
StoredForm(c) ==
    [message       |-> c.message,
     timestamp     |-> c.timestamp,
     parent_hashes |-> c.parent_hashes,
     tracked_files |-> c.tracked_files]

save_commit_object(c) ==
    IF repo THEN Put(commits, c.hash, StoredForm(c)) ELSE commits

read_commit_object(hash) ==
    IF hash \in DOMAIN commits
    THEN [hash          |-> hash,
          message       |-> commits[hash].message,
          timestamp     |-> commits[hash].timestamp,
          parent_hash   |-> IF commits[hash].parent_hashes = <<>> THEN ""
                            ELSE commits[hash].parent_hashes[1],
          parent_hashes |-> commits[hash].parent_hashes,
          tracked_files |-> commits[hash].tracked_files]
    ELSE CommitNode("", "", EmptyMap)

\* save_blob: the fingerprint, or "" when the object could not be written
Project_save_blob_hash(content) == IF repo THEN computeSHA1(content) ELSE ""

\* a save_blob that returns the fingerprint and writes no object
Project_save_blob_not_stored(content) == blobs

Project_save_blob(content) ==
    IF repo /\ computeSHA1(content) \notin DOMAIN blobs
    THEN Put(blobs, computeSHA1(content), content)
    ELSE blobs

Project_read_blob(hash) == IF hash \in DOMAIN blobs THEN blobs[hash] ELSE ""

get_head_commit_hash ==
    IF HEAD = NoFile THEN ""
    ELSE IF StartsWith(HEAD, "ref: ")
         THEN IF ReadRef(Substr(HEAD, 5)) # NoFile
              THEN ReadRef(Substr(HEAD, 5))
              ELSE HEAD
         ELSE HEAD

\* update_head: the branch file HEAD names, or the HEAD file itself
Project_update_head_heads(hash) ==
    IF HEAD # NoFile /\ StartsWith(HEAD, RefPrefix)
    THEN WriteBranch(Substr(HEAD, Len(RefPrefix)), hash)
    ELSE heads

\* an update_head that leaves the HEAD file of a detached HEAD as it is
Project_update_head_HEAD_kept(hash) == HEAD

Project_update_head_HEAD(hash) ==
    IF HEAD # NoFile /\ StartsWith(HEAD, RefPrefix)
    THEN HEAD
    ELSE IF repo THEN hash ELSE HEAD

get_current_branch_name ==
    IF HEAD = NoFile THEN "master"
    ELSE IF StartsWith(HEAD, RefPrefix) THEN Substr(HEAD, Len(RefPrefix))
    ELSE "detached HEAD"

\* getAncestors: the commit and everything reachable over parent lists
RECURSIVE AncestorClosure(_)
AncestorClosure(S) ==
    LET N == S \cup UNION {Range(commits[c].parent_hashes) : c \in S \cap DOMAIN commits}
    IN  IF N = S THEN S ELSE AncestorClosure(N)

getAncestors(hash) == IF hash = "" THEN {} ELSE AncestorClosure({hash})

\* find_common_ancestor returns the first element of ancestors1, in the iteration
\* order of a std::unordered_set, that is in ancestors2: any common ancestor.
\* "" stands for the loop finding none (the result is then CommitNode("", "", {})).
find_common_ancestor(hash1, hash2) ==
    IF getAncestors(hash1) \cap getAncestors(hash2) = {}
    THEN {""}
    ELSE getAncestors(hash1) \cap getAncestors(hash2)

add_conflict_markers(current_content, incoming_content) ==
    "<<<<<<< HEAD\n" \o current_content \o "=======\n" \o incoming_content
        \o ">>>>>>> incoming\n"

\* The first loop of merge (over the files of the target commit), for one file:
\* what it does to merged_files[filename] and whether it raises the conflict flag.
\* m is the entry before ("" for no entry).
MergeTargetLoop(m, anc, cur, tgt) ==
    IF cur = "" /\ anc = "" THEN [entry |-> tgt, conflict |-> FALSE]
    ELSE IF cur = "" /\ anc # ""
         THEN IF tgt # anc THEN [entry |-> m, conflict |-> TRUE]
              ELSE [entry |-> "", conflict |-> FALSE]
    ELSE IF cur # "" /\ anc = ""
         THEN IF tgt # cur THEN [entry |-> m, conflict |-> TRUE]
              ELSE [entry |-> m, conflict |-> FALSE]
    ELSE IF cur = tgt THEN [entry |-> m, conflict |-> FALSE]
    ELSE IF cur = anc THEN [entry |-> tgt, conflict |-> FALSE]
    ELSE IF tgt = anc THEN [entry |-> m, conflict |-> FALSE]
    ELSE [entry |-> m, conflict |-> TRUE]

\* The second loop (over the files of the current commit), for one file the target
\* commit may lack.
MergeCurrentLoop(m, anc, cur, in_target) ==
    IF ~in_target /\ anc # "" /\ cur = anc THEN [entry |-> "", conflict |-> FALSE]
    ELSE IF ~in_target /\ anc # "" /\ cur # anc THEN [entry |-> m, conflict |-> TRUE]
    ELSE [entry |-> m, conflict |-> FALSE]

\* Both loops for one file: merged_files starts as the current commit's files.
MergeFile(f, ancestor, current, target) ==
    LET m0 == At(current, f)
        r1 == IF f \in DOMAIN target
              THEN MergeTargetLoop(m0, At(ancestor, f), At(current, f), target[f])
              ELSE [entry |-> m0, conflict |-> FALSE]
        r2 == IF f \in DOMAIN current
              THEN MergeCurrentLoop(r1.entry, At(ancestor, f), current[f], f \in DOMAIN target)
              ELSE [entry |-> r1.entry, conflict |-> FALSE]
    IN  [entry |-> r2.entry, conflict |-> r1.conflict \/ r2.conflict]

\* lines 322-394 of merge: merged_files, and the files a conflict was reported on
Project_merged_files(ancestor, current, target) ==
    LET fs == {f \in DOMAIN current \cup DOMAIN target :
                   MergeFile(f, ancestor, current, target).entry # ""}
    IN  [f \in fs |-> MergeFile(f, ancestor, current, target).entry]

Project_conflicts(ancestor, current, target) ==
    {f \in DOMAIN current \cup DOMAIN target : MergeFile(f, ancestor, current, target).conflict}

\* a save_staging_area that writes the staging area as it was before the operation
save_staging_area_stale(dir_exists, staged) == IF dir_exists THEN staging ELSE index

\* save_staging_area: the index file after the staging area was written to it, one
\* "filename hash" line per entry; the file cannot be opened when .minigit is missing
save_staging_area(dir_exists, staged) == IF dir_exists THEN staged ELSE index

\* load_staging_area: the index file read back, one "filename hash" pair per line
load_staging_area == IF repo THEN index ELSE EmptyMap

----------------------------------------------------------------------------
(* The operations of src/MiniGit-Project.cpp *)

Frame == UNCHANGED <<prog, user, repo, heads_dir, HEAD, heads, blobs, commits, index, staging, wt, now>>

\* the bounds on the stored commits: those `commit` made and those `merge` made
Merges == {h \in DOMAIN commits : Len(commits[h].parent_hashes) >= 2}
Room(hash) == hash \in DOMAIN commits \/ Cardinality(DOMAIN commits \ Merges) < MaxCommits
RoomMerge(hash) == hash \in DOMAIN commits \/ Cardinality(Merges) < MaxMerges

Project_init ==
    /\ prog = "Project"
    /\ IF repo
       THEN Frame
       ELSE /\ repo' = TRUE
            /\ HEAD' = "ref: refs/heads/master"
            /\ index' = save_staging_area(TRUE, staging)
            /\ UNCHANGED <<prog, user, heads_dir, heads, blobs, commits, staging, wt, now>>

\* add <filename>, run when the file holds content (NoFile: the file is not there).
\* The content is the user's input: it is what the editor left in the file.
Project_add(filename, content) ==
    /\ prog = "Project"
    /\ IF content = NoFile \/ Project_save_blob_hash(content) = ""
       THEN /\ wt' = [wt EXCEPT ![filename] = content]
            /\ UNCHANGED <<prog, user, repo, heads_dir, HEAD, heads, blobs, commits, index, staging, now>>
       ELSE /\ wt' = [wt EXCEPT ![filename] = content]
            /\ blobs' = Project_save_blob(content)
            /\ staging' = Put(staging, filename, Project_save_blob_hash(content))
            /\ index' = save_staging_area(repo, staging')
            /\ UNCHANGED <<prog, user, repo, heads_dir, HEAD, heads, commits, now>>

\* a test of the staging area that never finds it empty
staging_area_never_empty == FALSE

\* staging_area.empty(), the test commit makes before anything else
staging_area_empty == staging = EmptyMap

Project_commit(message) ==
    /\ prog = "Project"
    /\ IF staging_area_empty
       THEN Frame
       ELSE LET head == get_head_commit_hash
                parent_hash == IF StartsWith(head, "ref: ") THEN "" ELSE head
            IN  \E new_commit \in {CommitNode(message, parent_hash, staging)} :
                /\ Room(new_commit.hash)
                /\ commits' = save_commit_object(new_commit)
                /\ heads' = Project_update_head_heads(new_commit.hash)
                /\ HEAD' = Project_update_head_HEAD(new_commit.hash)
                /\ staging' = EmptyMap
                /\ index' = save_staging_area(repo, staging')
                /\ UNCHANGED <<prog, user, repo, heads_dir, blobs, wt, now>>

\* a branch that rewrites the ref of an existing branch, as Branching.cpp does
Project_branch_overwriting(branch_name) ==
    /\ prog = "Project"
    /\ LET head == get_head_commit_hash
           head_commit_hash == IF StartsWith(head, "ref: ")
                               THEN IF ReadRef(Substr(head, 5)) # NoFile
                                    THEN ReadRef(Substr(head, 5)) ELSE ""
                               ELSE head
       IN  IF head_commit_hash = ""
           THEN Frame
           ELSE /\ heads' = WriteBranch(branch_name, head_commit_hash)
                /\ UNCHANGED <<prog, user, repo, heads_dir, HEAD, blobs, commits, index, staging, wt, now>>

Project_branch(branch_name) ==
    /\ prog = "Project"
    /\ LET head == get_head_commit_hash
           head_commit_hash == IF StartsWith(head, "ref: ")
                               THEN IF ReadRef(Substr(head, 5)) # NoFile
                                    THEN ReadRef(Substr(head, 5)) ELSE ""
                               ELSE head
       IN  IF heads[branch_name] # NoFile
           THEN Frame
           ELSE IF head_commit_hash = ""
           THEN Frame
           ELSE /\ heads' = WriteBranch(branch_name, head_commit_hash)
                /\ UNCHANGED <<prog, user, repo, heads_dir, HEAD, blobs, commits, index, staging, wt, now>>

\* the working tree after the files of a commit were written over a cleaned tree
Project_restore(files) ==
    [p \in Paths |-> IF p \in DOMAIN files THEN Project_read_blob(files[p]) ELSE NoFile]

\* a checkout that moves to a commit with update_head, as commit does
Project_checkout_with_update_head(target_ref) ==
    /\ prog = "Project"
    /\ IF target_ref \in BranchNames /\ heads[target_ref] # NoFile
       THEN /\ HEAD' = RefPrefix \o target_ref
            /\ wt' = IF heads[target_ref] # ""
                     THEN Project_restore(read_commit_object(heads[target_ref]).tracked_files)
                     ELSE wt
            /\ UNCHANGED <<prog, user, repo, heads_dir, heads, blobs, commits, index, staging, now>>
       ELSE IF StartsWith(target_ref, "sha1(") /\ target_ref \in DOMAIN commits
       THEN /\ HEAD' = Project_update_head_HEAD(target_ref)
            /\ heads' = Project_update_head_heads(target_ref)
            /\ wt' = Project_restore(read_commit_object(target_ref).tracked_files)
            /\ UNCHANGED <<prog, user, repo, heads_dir, blobs, commits, index, staging, now>>
       ELSE Frame

\* a checkout that also stages the tree it materializes
Project_checkout_staging_tree(target_ref) ==
    /\ prog = "Project"
    /\ IF target_ref \in BranchNames /\ heads[target_ref] # NoFile
       THEN /\ HEAD' = RefPrefix \o target_ref
            /\ wt' = IF heads[target_ref] # ""
                     THEN Project_restore(read_commit_object(heads[target_ref]).tracked_files)
                     ELSE wt
            /\ staging' = IF heads[target_ref] # ""
                          THEN read_commit_object(heads[target_ref]).tracked_files
                          ELSE staging
            /\ index' = save_staging_area(repo, staging')
            /\ UNCHANGED <<prog, user, repo, heads_dir, heads, blobs, commits, now>>
       ELSE IF StartsWith(target_ref, "sha1(") /\ target_ref \in DOMAIN commits
       THEN /\ HEAD' = target_ref
            /\ wt' = Project_restore(read_commit_object(target_ref).tracked_files)
            /\ staging' = read_commit_object(target_ref).tracked_files
            /\ index' = save_staging_area(repo, staging')
            /\ UNCHANGED <<prog, user, repo, heads_dir, heads, blobs, commits, now>>
       ELSE Frame

Project_checkout(target_ref) ==
    /\ prog = "Project"
    /\ IF target_ref \in BranchNames /\ heads[target_ref] # NoFile
       THEN /\ HEAD' = RefPrefix \o target_ref
            /\ wt' = IF heads[target_ref] # ""
                     THEN Project_restore(read_commit_object(heads[target_ref]).tracked_files)
                     ELSE wt
            /\ UNCHANGED <<prog, user, repo, heads_dir, heads, blobs, commits, index, staging, now>>
       ELSE IF StartsWith(target_ref, "sha1(") /\ target_ref \in DOMAIN commits
       THEN /\ HEAD' = target_ref
            /\ wt' = Project_restore(read_commit_object(target_ref).tracked_files)
            /\ UNCHANGED <<prog, user, repo, heads_dir, heads, blobs, commits, index, staging, now>>
       ELSE Frame

Project_merge(branch_name) ==
    /\ prog = "Project"
    /\ LET current == get_head_commit_hash
           target == heads[branch_name]
       IN  IF target = NoFile
           THEN Frame
           ELSE IF current = target
           THEN Frame
           ELSE \E anc \in find_common_ancestor(current, target) :
                \E ancestor_files \in {read_commit_object(anc).tracked_files} :
                \E current_files \in {read_commit_object(current).tracked_files} :
                \E target_files \in {read_commit_object(target).tracked_files} :
                \E merged_files \in {Project_merged_files(ancestor_files, current_files,
                                                          target_files)} :
                \E conflicts \in {Project_conflicts(ancestor_files, current_files,
                                                    target_files)} :
                IF conflicts # {}
                THEN /\ wt' = [p \in Paths |->
                                 IF p \in conflicts
                                 THEN add_conflict_markers(
                                          Project_read_blob(At(current_files, p)),
                                          Project_read_blob(At(target_files, p)))
                                 ELSE wt[p]]
                     /\ UNCHANGED <<prog, user, repo, heads_dir, HEAD, heads, blobs, commits,
                                    index, staging, now>>
                ELSE \E merge_commit \in
                         {add_parent(add_parent(
                              CommitNode("Merge branch '" \o branch_name \o "' into "
                                             \o get_current_branch_name,
                                         "", merged_files),
                              current), target)} :
                     /\ RoomMerge(merge_commit.hash)
                     /\ wt' = Project_restore(merged_files)
                     /\ commits' = save_commit_object(merge_commit)
                     /\ heads' = Project_update_head_heads(merge_commit.hash)
                     /\ HEAD' = Project_update_head_HEAD(merge_commit.hash)
                     /\ staging' = EmptyMap
                     /\ index' = save_staging_area(repo, staging')
                     /\ UNCHANGED <<prog, user, repo, heads_dir, blobs, now>>

\* the process ends and the next command starts a new one: the constructor builds the
\* MiniGit object anew and loads the staging area when .minigit exists
Project_NewProcess ==
    /\ prog = "Project"
    /\ staging' = load_staging_area
    /\ UNCHANGED <<prog, user, repo, heads_dir, HEAD, heads, blobs, commits, index, wt, now>>

----------------------------------------------------------------------------
(* src/unnamed/part_002: the class MiniGit, whose staging area lives in the   *)
(* object only; blobs and commits share the directory objects/.              *)

generate_simple_hash(content) == "h(" \o content \o "@" \o ToString(now) \o ")"

Part002_CommitNode(msg, parents, files_map) ==
    [hash          |-> "",
     message       |-> msg,
     timestamp     |-> format_timestamp(now),
     parent_hashes |-> parents,
     tracked_files |-> files_map]

serialize(c) ==
    "tree\n"
    \o Concat([i \in 1..Len(Keys(c.tracked_files)) |->
                  "blob " \o c.tracked_files[Keys(c.tracked_files)[i]] \o " "
                          \o Keys(c.tracked_files)[i] \o "\n"])
    \o Concat([i \in 1..Len(c.parent_hashes) |-> "parent " \o c.parent_hashes[i] \o "\n"])
    \o "author MiniGit <minigit@example.com> " \o c.timestamp \o "\n"
    \o "committer MiniGit <minigit@example.com> " \o c.timestamp \o "\n\n"
    \o c.message \o "\n"

\* deserialize reads "blob <hash> <name>" with operator>>: a line whose hash is empty
\* yields the name as the hash and an empty name, so files[""] = name (last line wins)
deserialize_files(files) ==
    LET bad == SelectSeq(Keys(files), LAMBDA k : files[k] = "")
        good == {k \in DOMAIN files : files[k] # ""}
    IN  IF bad = <<>> THEN files
        ELSE [k \in good \cup {""} |-> IF k = "" THEN bad[Len(bad)] ELSE files[k]]

\* the names in the directory objects/
Objects == DOMAIN blobs \cup DOMAIN commits

\* read_commit: a default CommitNode for a missing file; a blob parses as a commit
\* with no blob line and no parent line
read_commit(hash) ==
    IF hash \in DOMAIN commits
    THEN [hash          |-> hash,
          message       |-> commits[hash].message,
          timestamp     |-> commits[hash].timestamp,
          parent_hashes |-> commits[hash].parent_hashes,
          tracked_files |-> deserialize_files(commits[hash].tracked_files)]
    ELSE [hash          |-> IF hash \in DOMAIN blobs THEN hash ELSE "",
          message       |-> "",
          timestamp     |-> "",
          parent_hashes |-> <<>>,
          tracked_files |-> EmptyMap]

Part002_read_blob(hash) == IF hash \in DOMAIN blobs THEN blobs[hash] ELSE ""

get_head_hash ==
    IF HEAD = NoFile THEN ""
    ELSE IF StartsWith(HEAD, "ref: ")
         THEN IF ReadRef(Substr(HEAD, 5)) = NoFile THEN "" ELSE ReadRef(Substr(HEAD, 5))
         ELSE HEAD

Part002_update_head_heads(new_hash) ==
    IF HEAD # NoFile /\ StartsWith(HEAD, RefPrefix)
    THEN WriteBranch(Substr(HEAD, Len(RefPrefix)), new_hash)
    ELSE heads

Part002_update_head_HEAD(new_hash) ==
    IF HEAD = NoFile \/ StartsWith(HEAD, "ref: ") THEN HEAD ELSE new_hash

\* checkout_files over the tree tree0: every listed file is overwritten, nothing is removed
checkout_files(tree0, files) ==
    [p \in Paths |-> IF p \in DOMAIN files THEN Part002_read_blob(files[p]) ELSE tree0[p]]

\* find_lca, first loop: everything reachable from hash1
RECURSIVE Visited(_)
Visited(S) ==
    LET N == S \cup UNION {Range(read_commit(c).parent_hashes) \ {""} : c \in S}
    IN  IF N = S THEN S ELSE Visited(N)

\* find_lca, second loop: the queue q is walked breadth first until a visited commit
RECURSIVE SecondWalk(_, _)
SecondWalk(q, visited) ==
    IF q = <<>> THEN ""
    ELSE IF Head(q) \in visited THEN Head(q)
    ELSE SecondWalk(Tail(q) \o SelectSeq(read_commit(Head(q)).parent_hashes,
                                         LAMBDA p : p # ""),
                    visited)

find_lca(hash1, hash2) ==
    IF hash1 = "" \/ hash2 = "" THEN "" ELSE SecondWalk(<<hash2>>, Visited({hash1}))

write_conflict_file(ours, theirs) ==
    "<<<<<<< OURS\n" \o ours \o "\n=======\n" \o theirs \o "\n>>>>>>> THEIRS\n"

\* merge_file_maps, the body of the loop for one file: the fingerprint put in merged
merge_entry(base_hash, our_hash, their_hash) ==
    IF our_hash = their_hash THEN our_hash
    ELSE IF base_hash = our_hash THEN their_hash
    ELSE IF base_hash = their_hash THEN our_hash
    ELSE ""

\* a merge_file_maps that compares ours with the base only
merge_conflict_ours_only(base_hash, our_hash, their_hash) ==
    our_hash # their_hash /\ base_hash # our_hash

merge_conflict(base_hash, our_hash, their_hash) ==
    our_hash # their_hash /\ base_hash # our_hash /\ base_hash # their_hash

\* merge_file_maps: first of the pair, merged has an entry for every file of the three maps
merge_file_maps(base, ours, theirs) ==
    [f \in DOMAIN base \cup DOMAIN ours \cup DOMAIN theirs |->
        merge_entry(At(base, f), At(ours, f), At(theirs, f))]

\* merge_file_maps: the files a conflict was found on (second of the pair: non-empty)
conflict_files(base, ours, theirs) ==
    {f \in DOMAIN base \cup DOMAIN ours \cup DOMAIN theirs :
        merge_conflict(At(base, f), At(ours, f), At(theirs, f))}

----------------------------------------------------------------------------
(* The operations of src/unnamed/part_002, as calls on one MiniGit object.   *)

Part002_init ==
    /\ prog = "Part002"
    /\ IF repo
       THEN Frame
       ELSE /\ repo' = TRUE
            /\ heads_dir' = TRUE
            /\ HEAD' = "ref: refs/heads/main"
            /\ heads' = [heads EXCEPT !["main"] = ""]
            /\ UNCHANGED <<prog, user, blobs, commits, index, staging, wt, now>>

\* add <filename>, the file holding content (NoFile: the file is not there)
Part002_add(filename, content) ==
    /\ prog = "Part002"
    /\ IF content = NoFile \/ ~repo
       THEN /\ wt' = [wt EXCEPT ![filename] = content]
            /\ UNCHANGED <<prog, user, repo, heads_dir, HEAD, heads, blobs, commits, index, staging, now>>
       ELSE /\ wt' = [wt EXCEPT ![filename] = content]
            /\ blobs' = Put(blobs, generate_simple_hash(content), content)
            /\ staging' = Put(staging, filename, generate_simple_hash(content))
            /\ UNCHANGED <<prog, user, repo, heads_dir, HEAD, heads, commits, index, now>>

Part002_commit(message) ==
    /\ prog = "Part002"
    /\ IF staging = EmptyMap
       THEN Frame
       ELSE LET parent_hash == get_head_hash
                parents == IF parent_hash # "" THEN <<parent_hash>> ELSE <<>>
            IN  \E node \in {Part002_CommitNode(message, parents, staging)} :
                \E new_commit \in {[node EXCEPT !.hash = generate_simple_hash(serialize(node))]} :
                /\ Room(new_commit.hash)
                /\ commits' = save_commit_object(new_commit)
                /\ heads' = Part002_update_head_heads(new_commit.hash)
                /\ HEAD' = Part002_update_head_HEAD(new_commit.hash)
                /\ staging' = EmptyMap
                /\ UNCHANGED <<prog, user, repo, heads_dir, blobs, index, wt, now>>

Part002_branch(branch_name) ==
    /\ prog = "Part002"
    /\ IF get_head_hash = ""
       THEN Frame
       ELSE /\ heads' = WriteBranch(branch_name, get_head_hash)
            /\ UNCHANGED <<prog, user, repo, heads_dir, HEAD, blobs, commits, index, staging, wt, now>>

Part002_checkout(name) ==
    /\ prog = "Part002"
    /\ IF name \in BranchNames /\ heads[name] # NoFile
       THEN IF heads[name] = ""
            THEN Frame
            ELSE /\ HEAD' = RefPrefix \o name
                 /\ wt' = IF read_commit(heads[name]).hash = "" THEN wt
                          ELSE checkout_files(wt, read_commit(heads[name]).tracked_files)
                 /\ UNCHANGED <<prog, user, repo, heads_dir, heads, blobs, commits, index, staging, now>>
       ELSE IF name \notin Objects
       THEN Frame
       ELSE /\ HEAD' = name
            /\ wt' = checkout_files(wt, read_commit(name).tracked_files)
            /\ UNCHANGED <<prog, user, repo, heads_dir, heads, blobs, commits, index, staging, now>>

Part002_merge(branch_name) ==
    /\ prog = "Part002"
    /\ LET current_hash == get_head_hash
           their_hash == heads[branch_name]
       IN  IF their_hash = NoFile
           THEN Frame
           ELSE IF current_hash = ""
           THEN Frame
           ELSE \E lca_hash \in {find_lca(current_hash, their_hash)} :
                IF lca_hash = ""
                THEN Frame
                ELSE \E base_files \in {read_commit(lca_hash).tracked_files} :
                     \E our_files \in {read_commit(current_hash).tracked_files} :
                     \E their_files \in {read_commit(their_hash).tracked_files} :
                     \E merged_map \in {merge_file_maps(base_files, our_files, their_files)} :
                     \E node \in {Part002_CommitNode("Merge branch '" \o branch_name \o "'",
                                                     <<current_hash, their_hash>>, merged_map)} :
                     \E merge_commit \in {[node EXCEPT
                                              !.hash = generate_simple_hash(serialize(node))]} :
                     LET conflicts == conflict_files(base_files, our_files, their_files)
                         \* the files write_conflict_file wrote during merge_file_maps
                         marked == [p \in Paths |->
                                      IF p \in conflicts
                                      THEN write_conflict_file(
                                               Part002_read_blob(At(our_files, p)),
                                               Part002_read_blob(At(their_files, p)))
                                      ELSE wt[p]]
                     IN  /\ RoomMerge(merge_commit.hash)
                         /\ commits' = save_commit_object(merge_commit)
                         /\ heads' = Part002_update_head_heads(merge_commit.hash)
                         /\ HEAD' = Part002_update_head_HEAD(merge_commit.hash)
                         /\ wt' = checkout_files(marked, merged_map)
                         /\ UNCHANGED <<prog, user, repo, heads_dir, blobs, index, staging, now>>

\* the process ends and a new one starts: the MiniGit object is built anew
NewProcess ==
    /\ prog = "Part002"
    /\ staging # EmptyMap
    /\ staging' = EmptyMap
    /\ UNCHANGED <<prog, user, repo, heads_dir, HEAD, heads, blobs, commits, index, wt, now>>

----------------------------------------------------------------------------
(* src/unnamed/part_001: add, commit and log over a staging area persisted in *)
(* .minigit/staging_area.txt; commits are files .minigit/<hash>.txt and no    *)
(* blob is ever written.                                                      *)

Part001_generate_simple_hash(content) == "h(" \o content \o "@" \o ToString(now) \o ")"

Part001_CommitNode(msg, parents, files_map) ==
    [hash          |-> "",
     message       |-> msg,
     timestamp     |-> format_timestamp(now),
     parent_hashes |-> parents,
     tracked_files |-> files_map]

Part001_serialize(c) ==
    "tree\n"
    \o Concat([i \in 1..Len(Keys(c.tracked_files)) |->
                  "blob " \o c.tracked_files[Keys(c.tracked_files)[i]] \o " "
                          \o Keys(c.tracked_files)[i] \o "\n"])
    \o Concat([i \in 1..Len(c.parent_hashes) |-> "parent " \o c.parent_hashes[i] \o "\n"])
    \o "author MiniGit <minigit@example.com> " \o c.timestamp \o "\n"
    \o "committer MiniGit <minigit@example.com> " \o c.timestamp \o "\n\n"
    \o c.message \o "\n"

\* staging_area.txt read back: "filename hash" pairs; an absent file gives an empty map
Part001_load_staging_area == IF repo THEN index ELSE EmptyMap

\* mkdir .minigit; nothing else is created
Part001_init ==
    /\ prog = "Part001"
    /\ repo' = TRUE
    /\ UNCHANGED <<prog, user, heads_dir, HEAD, heads, blobs, commits, index, staging, wt, now>>

\* the content is hashed and the hash staged; save_staging_area creates .minigit when
\* it is missing and rewrites staging_area.txt
Part001_add(filename, content) ==
    /\ prog = "Part001"
    /\ wt' = [wt EXCEPT ![filename] = content]
    /\ IF content = NoFile
       THEN UNCHANGED <<prog, user, repo, heads_dir, HEAD, heads, blobs, commits, index, staging, now>>
       ELSE /\ staging' = Put(staging, filename, Part001_generate_simple_hash(content))
            /\ repo' = TRUE
            /\ index' = staging'
            /\ UNCHANGED <<prog, user, heads_dir, HEAD, heads, blobs, commits, now>>

Part001_commit(message) ==
    /\ prog = "Part001"
    /\ IF Part001_load_staging_area = EmptyMap
       THEN /\ staging' = EmptyMap
            /\ UNCHANGED <<prog, user, repo, heads_dir, HEAD, heads, blobs, commits, index, wt, now>>
       ELSE \E node \in {Part001_CommitNode(message, <<>>, Part001_load_staging_area)} :
            \E new_commit \in {[node EXCEPT
                                   !.hash = Part001_generate_simple_hash(Part001_serialize(node))]} :
                /\ Room(new_commit.hash)
                /\ commits' = Put(commits, new_commit.hash, new_commit)
                /\ staging' = EmptyMap
                /\ index' = EmptyMap
                /\ HEAD' = new_commit.hash
                /\ UNCHANGED <<prog, user, repo, heads_dir, heads, blobs, wt, now>>

\* branch, checkout and merge print one line and touch nothing
Part001_branch(name) == prog = "Part001" /\ Frame
Part001_checkout(name) == prog = "Part001" /\ Frame
Part001_merge(branch_name) == prog = "Part001" /\ Frame

\* a new invocation: the constructor loads staging_area.txt when .minigit exists
Part001_NewProcess ==
    /\ prog = "Part001"
    /\ staging' = Part001_load_staging_area
    /\ UNCHANGED <<prog, user, repo, heads_dir, HEAD, heads, blobs, commits, index, wt, now>>

----------------------------------------------------------------------------
(* src/unnamed/part_000, the first program: init and checkout over a          *)
(* repository whose commits are files .minigit/commits/<id> of lines          *)
(* "<fileName> <blobID>" and whose blobs are files .minigit/objects/<blobID>. *)

\* the position of the first '\n' of s, 0 when there is none
FirstNewline(s) ==
    LET S == {i \in 1..Len(s) : SubSeq(s, i, i) = "\n"}
    IN  IF S = {} THEN 0 ELSE CHOOSE i \in S : \A j \in S : i <= j

\* the lines std::getline reads out of a stream holding s
RECURSIVE getlines(_)
getlines(s) ==
    IF s = "" THEN <<>>
    ELSE IF FirstNewline(s) = 0 THEN <<s>>
    ELSE <<SubSeq(s, 1, FirstNewline(s) - 1)>> \o getlines(SubSeq(s, FirstNewline(s) + 1, Len(s)))

\* while (std::getline(blobIn, lineData)) fileOut << lineData << '\n';
Part000_copy_lines(content) ==
    Concat([i \in 1..Len(getlines(content)) |-> getlines(content)[i] \o "\n"])

\* the files of the commit written over the working tree; a missing blob is skipped
Part000_restore(tree0, files) ==
    [p \in Paths |->
        IF p \in DOMAIN files /\ files[p] \in DOMAIN blobs
        THEN Part000_copy_lines(blobs[files[p]])
        ELSE tree0[p]]

Part000_init ==
    /\ prog = "Part000"
    /\ IF repo
       THEN Frame
       ELSE /\ repo' = TRUE
            /\ heads_dir' = TRUE
            /\ HEAD' = "ref: refs/heads/master"
            /\ UNCHANGED <<prog, user, heads, blobs, commits, index, staging, wt, now>>

\* HEAD is written before the commit file is looked for
Part000_checkout(target) ==
    /\ prog = "Part000"
    /\ LET is_branch == heads_dir /\ target \in BranchNames /\ heads[target] # NoFile
           commitID == IF is_branch THEN heads[target] ELSE target
       IN  /\ HEAD' = IF is_branch THEN RefPrefix \o target
                      ELSE IF repo THEN target ELSE HEAD
           /\ wt' = IF commitID \in DOMAIN commits
                    THEN Part000_restore(wt, commits[commitID].tracked_files)
                    ELSE wt
           /\ UNCHANGED <<prog, user, repo, heads_dir, heads, blobs, commits, index, staging, now>>

----------------------------------------------------------------------------
(* The environment: the user's editor, the clock, the shell. *)

\* some stored object carries a clock reading (the clock is normalised: the first
\* such object is made in second 0)
Stamped ==
    \/ commits # EmptyMap
    \/ (prog = "Part002" /\ blobs # EmptyMap)
    \/ (prog = "Part001" /\ index # EmptyMap)

\* a second passes
Tick ==
    /\ user = "clock"
    /\ now < MaxTime /\ Stamped
    /\ now' = now + 1
    /\ UNCHANGED <<prog, user, repo, heads_dir, HEAD, heads, blobs, commits, index, staging, wt>>

\* the user creates .minigit/refs/heads by hand
MkdirHeads ==
    /\ repo /\ ~heads_dir /\ commits = EmptyMap
    /\ heads_dir' = TRUE
    /\ UNCHANGED <<prog, user, repo, HEAD, heads, blobs, commits, index, staging, wt, now>>

----------------------------------------------------------------------------

Blank ==
    /\ repo = FALSE
    /\ heads_dir = FALSE
    /\ HEAD = NoFile
    /\ heads = [b \in BranchNames |-> NoFile]
    /\ blobs = EmptyMap
    /\ commits = EmptyMap
    /\ index = EmptyMap
    /\ staging = EmptyMap
    /\ wt = [p \in Paths |-> NoFile]
    /\ now = 0

(* The runs are split by what the user does in them.  Every user runs init,  *)
(* add, commit, branch, checkout and merge; they differ in their inputs:     *)
(*   "branches"      one path with three contents, two branches              *)
(*   "paths"         two paths with one content each, two branches           *)
(*   "fingerprints"  one path, checkout by fingerprint, branch dev created   *)
(*   "clock"         one path, one branch, commands in different seconds     *)
(*   "conflicts"     two paths, one of them with two contents, two branches  *)
Users == {"branches", "paths", "fingerprints", "clock"}

\* the files the user edits and adds
UserPaths == IF user \in {"paths", "conflicts"} THEN {"f", "g"} ELSE {"f"}

\* what the user's editor may leave in a file
FileContents(p) ==
    IF user = "branches" THEN {"A", "B", "C"}
    ELSE IF user = "fingerprints" THEN {"A", NoFile}
    ELSE IF user = "conflicts" /\ p = "g" THEN {"A", "B"}
    ELSE {"A"}

DefaultBranch == IF prog = "Project" THEN "master" ELSE "main"

\* the names the user passes to branch, checkout and merge
Names == IF user \in {"branches", "paths", "conflicts"} THEN {DefaultBranch, "dev"} ELSE {DefaultBranch}

\* the names the user gives to new branches
NewNames == IF user = "fingerprints" THEN {"dev"} ELSE Names \ {DefaultBranch}

\* what the user passes to checkout
Targets ==
    Names \cup {"nosuch"}
          \cup (IF user = "fingerprints" THEN DOMAIN commits \cup DOMAIN blobs ELSE {})

InitProject == prog = "Project" /\ user \in Users /\ Blank

NextProject ==
    \/ Project_init
    \/ \E p \in UserPaths : \E c \in FileContents(p) : Project_add(p, c)
    \/ \E m \in Messages : Project_commit(m)
    \/ \E b \in NewNames : Project_branch(b)
    \/ \E t \in Targets : Project_checkout(t)
    \/ \E b \in Names : Project_merge(b)
    \/ Project_NewProcess
    \/ Tick
    \/ MkdirHeads

SpecProject == InitProject /\ [][NextProject]_vars

\* src/MiniGit-Project.cpp with the user who makes a conflict beside a clean path
InitConflict == prog = "Project" /\ user = "conflicts" /\ Blank

\* every command of this user runs within the same second
NextConflict ==
    \/ Project_init
    \/ \E p \in UserPaths : \E c \in FileContents(p) : Project_add(p, c)
    \/ \E m \in Messages : Project_commit(m)
    \/ \E b \in NewNames : Project_branch(b)
    \/ \E t \in Targets : Project_checkout(t)
    \/ \E b \in Names : Project_merge(b)
    \/ Project_NewProcess
    \/ MkdirHeads

SpecConflict == InitConflict /\ [][NextConflict]_vars

InitPart002 == prog = "Part002" /\ user \in Users /\ Blank

NextPart002 ==
    \/ Part002_init
    \/ \E p \in UserPaths : \E c \in FileContents(p) : Part002_add(p, c)
    \/ \E m \in Messages : Part002_commit(m)
    \/ \E b \in NewNames : Part002_branch(b)
    \/ \E t \in Targets : Part002_checkout(t)
    \/ \E b \in Names : Part002_merge(b)
    \/ NewProcess
    \/ Tick

SpecPart002 == InitPart002 /\ [][NextPart002]_vars

InitPart001 == prog = "Part001" /\ user \in Users /\ Blank

NextPart001 ==
    \/ Part001_init
    \/ \E p \in UserPaths : \E c \in FileContents(p) : Part001_add(p, c)
    \/ \E m \in Messages : Part001_commit(m)
    \/ \E b \in NewNames : Part001_branch(b)
    \/ \E t \in Targets : Part001_checkout(t)
    \/ \E b \in Names : Part001_merge(b)
    \/ Part001_NewProcess
    \/ Tick

SpecPart001 == InitPart001 /\ [][NextPart001]_vars

\* the objects part_000 may find in .minigit/objects: an empty file, a file without a
\* final newline, a file ending in a newline, and a two-line file without a final newline
Part000_objects == [b \in {"b0", "b1", "b2", "b3"} |->
                       IF b = "b0" THEN "" ELSE IF b = "b1" THEN "A"
                       ELSE IF b = "b2" THEN "A\n" ELSE "A\nB"]

\* the tree maps a commit file may list
Part000_trees == UNION {[S -> DOMAIN Part000_objects] : S \in SUBSET Paths \ {{}}}

\* part_000 starts in an empty directory or in a repository another program filled: one
\* commit k1 made from staged files, master on it, dev absent or on it too
InitPart000 ==
    /\ prog = "Part000"
    /\ user = "paths"
    /\ \/ Blank
       \/ /\ repo = TRUE
          /\ heads_dir = TRUE
          /\ HEAD = "ref: refs/heads/master"
          /\ \E d \in {NoFile, "k1"} :
                 heads = [b \in BranchNames |->
                             IF b = "master" THEN "k1" ELSE IF b = "dev" THEN d ELSE NoFile]
          /\ blobs = Part000_objects
          /\ \E tree \in Part000_trees :
                 commits = [h \in {"k1"} |->
                               [hash |-> h, message |-> "m", timestamp |-> format_timestamp(0),
                                parent_hashes |-> <<>>, tracked_files |-> tree]]
          /\ index = EmptyMap
          /\ staging = EmptyMap
          /\ wt = [p \in Paths |-> NoFile]
          /\ now = 0

Part000_targets == {"master", "dev", "k1", "nosuch"}

NextPart000 ==
    \/ Part000_init
    \/ \E t \in Part000_targets : Part000_checkout(t)

SpecPart000 == InitPart000 /\ [][NextPart000]_vars

\* either program, run from an empty directory
InitBoth == prog \in {"Project", "Part002"} /\ user \in Users /\ Blank

NextBoth == NextProject \/ NextPart002

SpecBoth == InitBoth /\ [][NextBoth]_vars

----------------------------------------------------------------------------
(* The three-way reconciliation on its own: a repository holding a base      *)
(* commit and two children of it, ours (the tip of the default branch, where *)
(* HEAD is) and theirs (the tip of dev), with any three trees; then merge.   *)

Fingerprint(pg, content) ==
    IF pg = "Project" THEN computeSHA1(content) ELSE "h(" \o content \o "@0)"

Trees(pg) ==
    UNION {[S -> {Fingerprint(pg, c) : c \in Contents}] : S \in SUBSET Paths \ {{}}}

\* the three commits as `commit` stores them, all made in second 0 with message "m"
TableCommit(pg, parents, tree) ==
    IF pg = "Project"
    THEN CommitNode("m", IF parents = <<>> THEN "" ELSE parents[1], tree)
    ELSE LET node == Part002_CommitNode("m", parents, tree)
         IN  [node EXCEPT !.hash = generate_simple_hash(serialize(node))]

InitTable ==
    \E pg \in {"Project", "Part002"} :
    \E tb \in Trees(pg) : \E to \in Trees(pg) : \E tt \in Trees(pg) :
        /\ prog = pg
        /\ user = "branches"
        /\ now = 0
        /\ repo = TRUE
        /\ heads_dir = TRUE
        /\ blobs = [h \in {Fingerprint(pg, c) : c \in Contents} |->
                       CHOOSE c \in Contents : Fingerprint(pg, c) = h]
        /\ LET base == TableCommit(pg, <<>>, tb)
               ours == TableCommit(pg, <<base.hash>>, to)
               theirs == TableCommit(pg, <<base.hash>>, tt)
           IN  /\ commits = [h \in {base.hash, ours.hash, theirs.hash} |->
                                IF h = base.hash THEN StoredForm(base)
                                ELSE IF h = ours.hash THEN StoredForm(ours)
                                ELSE StoredForm(theirs)]
               /\ heads = [b \in BranchNames |->
                              IF b = (IF pg = "Project" THEN "master" ELSE "main")
                              THEN ours.hash
                              ELSE IF b = "dev" THEN theirs.hash ELSE NoFile]
        /\ HEAD = RefPrefix \o (IF pg = "Project" THEN "master" ELSE "main")
        /\ index = EmptyMap
        /\ staging = EmptyMap
        /\ wt = [p \in Paths |-> IF p \in DOMAIN to THEN blobs[to[p]] ELSE NoFile]

NextTable ==
    \/ \E b \in NewNames : Project_merge(b)
    \/ \E b \in NewNames : Part002_merge(b)

SpecTable == InitTable /\ [][NextTable]_vars

----------------------------------------------------------------------------
(* The vocabulary of the specification. *)

\* the rows of the three-way table that are marked conflict; "" stands for absent
ConflictRow(l, c, t) ==
    \/ l = "" /\ c # "" /\ t # "" /\ c # t
    \/ l # "" /\ c = "" /\ t # "" /\ t # l
    \/ l # "" /\ c # "" /\ c # l /\ t = ""
    \/ l # "" /\ c # "" /\ t # "" /\ c # l /\ t # l /\ c # t

\* the result of every other row: the fingerprint to take, "" for no entry
TableResult(l, c, t) ==
    IF c = t THEN c
    ELSE IF c = l THEN t
    ELSE c

\* some path of the three trees falls in a conflict row
SomeConflictRow(base, ours, theirs) ==
    \E p \in DOMAIN base \cup DOMAIN ours \cup DOMAIN theirs :
        ConflictRow(At(base, p), At(ours, p), At(theirs, p))

\* merge <b> of src/MiniGit-Project.cpp gets as far as the reconciliation
Project_merges(b) ==
    /\ Project_merge(b)
    /\ heads[b] # NoFile
    /\ get_head_commit_hash # heads[b]

\* merge <b> of src/unnamed/part_002 gets as far as the reconciliation
Part002_merges(b) ==
    /\ Part002_merge(b)
    /\ heads[b] # NoFile
    /\ get_head_hash # ""
    /\ find_lca(get_head_hash, heads[b]) # ""

\* the three trees merge <b> of src/MiniGit-Project.cpp reconciles: the base is the
\* tree of whichever common ancestor it picks
Project_bases(b) ==
    {read_commit_object(anc).tracked_files :
        anc \in find_common_ancestor(get_head_commit_hash, heads[b])}
Project_ours == read_commit_object(get_head_commit_hash).tracked_files
Project_theirs(b) == read_commit_object(heads[b]).tracked_files

\* the three trees merge <b> of src/unnamed/part_002 reconciles
Part002_base(b) == read_commit(find_lca(get_head_hash, heads[b])).tracked_files
Part002_ours == read_commit(get_head_hash).tracked_files
Part002_theirs(b) == read_commit(heads[b]).tracked_files

\* the commits this step stored under a new fingerprint
NewCommits == DOMAIN commits' \ DOMAIN commits

\* HEAD is attached to the branch b
Attached(b) == HEAD = RefPrefix \o b

\* between init and the first commit
Unborn == Attached(DefaultBranch) /\ commits = EmptyMap

----------------------------------------------------------------------------
(* log: the fingerprints it prints, in order.  The loop is followed for at   *)
(* most LogLimit commits, more than a repository of the modelled size holds. *)

LogLimit == MaxCommits + MaxMerges + 2

\* the loop of log in MiniGit-Project.cpp, entered with current_commit_hash
RECURSIVE Project_log_loop(_, _)
Project_log_loop(current_commit_hash, fuel) ==
    IF fuel = 0 \/ current_commit_hash = "" THEN <<>>
    ELSE LET commit == read_commit_object(current_commit_hash)
         IN  IF commit.hash = "" THEN <<>>
             ELSE <<commit.hash>> \o
                  (IF commit.parent_hashes = <<>> THEN <<>>
                   ELSE Project_log_loop(commit.parent_hashes[1], fuel - 1))

\* log of MiniGit-Project.cpp
Project_log ==
    LET head == get_head_commit_hash
    IN  IF StartsWith(head, "ref: ")
        THEN IF ReadRef(Substr(head, 5)) # NoFile
             THEN Project_log_loop(ReadRef(Substr(head, 5)), LogLimit)
             ELSE <<>>
        ELSE Project_log_loop(head, LogLimit)

\* the loop of log in part_002
RECURSIVE Part002_log_loop(_, _)
Part002_log_loop(current, fuel) ==
    IF fuel = 0 \/ current = "" THEN <<>>
    ELSE LET c == read_commit(current)
         IN  IF c.hash = "" THEN <<>>
             ELSE <<c.hash>> \o
                  (IF c.parent_hashes = <<>> THEN <<>>
                   ELSE Part002_log_loop(c.parent_hashes[1], fuel - 1))

\* log of part_002
Part002_log == Part002_log_loop(get_head_hash, LogLimit)

----------------------------------------------------------------------------
(* main: the exit status of the process for a command line; argv[1] is the   *)
(* program's name, as argv[0] is in C.                                       *)

\* main of MiniGit-Project.cpp
Project_main(argv) ==
    LET argc == Len(argv)
    IN  IF argc < 2 THEN 1
        ELSE IF \/ argv[2] = "init"
                \/ argv[2] = "add" /\ argc >= 3
                \/ argv[2] = "commit" /\ argc >= 3 /\ argv[3] = "-m" /\ argc >= 4
                \/ argv[2] = "log"
                \/ argv[2] = "branch" /\ argc >= 3
                \/ argv[2] = "checkout" /\ argc >= 3
                \/ argv[2] = "merge" /\ argc >= 3
             THEN 0
             ELSE 1

\* main of part_002
Part002_main(argv) ==
    LET argc == Len(argv)
    IN  IF argc < 2 THEN 1
        ELSE IF argv[2] \in {"init", "log"} THEN 0
        ELSE IF argv[2] \in {"add", "commit", "branch", "checkout", "merge"}
             THEN IF argc < 3 THEN 1 ELSE 0
             ELSE 1

----------------------------------------------------------------------------
(* The stored form of a commit as text: what save_commit_object of            *)
(* MiniGit-Project.cpp and serialize of MiniGit_Merge_Integrated.cpp write,   *)
(* and what read_commit_object and deserialize make of it.                    *)

\* s.find(ch): the position of the first ch in s, 0 for npos
Find(s, ch) ==
    LET S == {i \in 1..Len(s) : SubSeq(s, i, i) = ch}
    IN  IF S = {} THEN 0 ELSE CHOOSE i \in S : \A j \in S : i <= j

\* the strings std::getline(stream, str, ch) yields in turn
RECURSIVE Tokens(_, _)
Tokens(s, ch) ==
    IF s = "" THEN <<>>
    ELSE IF Find(s, ch) = 0 THEN <<s>>
    ELSE <<SubSeq(s, 1, Find(s, ch) - 1)>> \o Tokens(SubSeq(s, Find(s, ch) + 1, Len(s)), ch)

\* the words operator>> extracts from a line
Words(line) == SelectSeq(Tokens(line, " "), LAMBDA w : w # "")

\* the parent fingerprints joined by commas
RECURSIVE JoinParents(_)
JoinParents(ps) ==
    IF ps = <<>> THEN ""
    ELSE IF Len(ps) = 1 THEN ps[1]
    ELSE ps[1] \o "," \o JoinParents(Tail(ps))

\* the file commits/<hash> as save_commit_object writes it
Project_commit_text(c) ==
    "hash:" \o c.hash \o "\n"
    \o "message:" \o c.message \o "\n"
    \o "timestamp:" \o c.timestamp \o "\n"
    \o "parent_hash:" \o JoinParents(c.parent_hashes) \o "\n"
    \o Concat([i \in 1..Len(Keys(c.tracked_files)) |->
                  "file:" \o Keys(c.tracked_files)[i] \o ":"
                          \o c.tracked_files[Keys(c.tracked_files)[i]] \o "\n"])

\* read_commit_object, one line: the field the line's prefix names is replaced, a
\* line with no known prefix is skipped
Project_parse_line(acc, line) ==
    IF StartsWith(line, "hash:") THEN [acc EXCEPT !.hash = Substr(line, 5)]
    ELSE IF StartsWith(line, "message:") THEN [acc EXCEPT !.message = Substr(line, 8)]
    ELSE IF StartsWith(line, "timestamp:") THEN [acc EXCEPT !.timestamp = Substr(line, 10)]
    ELSE IF StartsWith(line, "parent_hash:")
    THEN [acc EXCEPT !.parent_hashes = acc.parent_hashes \o Tokens(Substr(line, 12), ",")]
    ELSE IF StartsWith(line, "file:") /\ Find(Substr(line, 5), ":") # 0
    THEN LET file_info == Substr(line, 5)
             first_colon == Find(file_info, ":")
         IN  [acc EXCEPT !.tracked_files =
                  Put(acc.tracked_files, SubSeq(file_info, 1, first_colon - 1),
                      Substr(file_info, first_colon))]
    ELSE acc

RECURSIVE Project_parse_lines(_, _)
Project_parse_lines(acc, lines) ==
    IF lines = <<>> THEN acc
    ELSE Project_parse_lines(Project_parse_line(acc, Head(lines)), Tail(lines))

\* read_commit_object applied to the text of a commit file
Project_parse_commit(text) ==
    Project_parse_lines([hash |-> "", message |-> "", timestamp |-> "",
                         parent_hashes |-> <<>>, tracked_files |-> EmptyMap],
                        Tokens(text, "\n"))

\* MiniGit_Merge_Integrated.cpp: the first CommitNode class, with one parent
Integrated_generate_simple_hash(content) == "h(" \o content \o "@" \o ToString(now) \o ")"

\* std::put_time "%Y-%m-%d %H:%M:%S": nineteen characters
Integrated_timestamp == "2025-06-01 12:00:0" \o ToString(now)

Integrated_CommitNode(msg, parent_h, files_map) ==
    [hash          |-> "",
     message       |-> msg,
     timestamp     |-> Integrated_timestamp,
     parent_hash   |-> parent_h,
     tracked_files |-> files_map]

Integrated_serialize(c) ==
    "tree\n"
    \o Concat([i \in 1..Len(Keys(c.tracked_files)) |->
                  "blob " \o c.tracked_files[Keys(c.tracked_files)[i]] \o " "
                          \o Keys(c.tracked_files)[i] \o "\n"])
    \o "parent " \o c.parent_hash \o "\n"
    \o "author Dev <dev@example.com> " \o c.timestamp \o "\n"
    \o "committer Dev <dev@example.com> " \o c.timestamp \o "\n\n"
    \o c.message \o "\n"

\* deserialize, one line: every empty line is skipped and opens the message block
Integrated_parse_line(acc, line) ==
    IF line = "" THEN [acc EXCEPT !.msg_block = TRUE]
    ELSE IF acc.msg_block THEN [acc EXCEPT !.message = acc.message \o line \o "\n"]
    ELSE IF StartsWith(line, "blob ")
    THEN LET w == Words(line)
             hash_val == IF Len(w) >= 2 THEN w[2] ELSE ""
             filename == IF Len(w) >= 3 THEN w[3] ELSE ""
         IN  [acc EXCEPT !.tracked_files = Put(acc.tracked_files, filename, hash_val)]
    ELSE IF StartsWith(line, "parent ") THEN [acc EXCEPT !.parent_hash = Substr(line, 7)]
    ELSE IF StartsWith(line, "author ") /\ Len(line) >= 19
    THEN [acc EXCEPT !.timestamp = Substr(line, Len(line) - 19)]
    ELSE acc

RECURSIVE Integrated_parse_lines(_, _)
Integrated_parse_lines(acc, lines) ==
    IF lines = <<>> THEN acc
    ELSE Integrated_parse_lines(Integrated_parse_line(acc, Head(lines)), Tail(lines))

\* deserialize: the fields parsed, the final newline of the message removed
Integrated_deserialize(hash, content) ==
    LET acc == Integrated_parse_lines(
                   [message |-> "", timestamp |-> "", parent_hash |-> "",
                    tracked_files |-> EmptyMap, msg_block |-> FALSE],
                   Tokens(content, "\n"))
        msg == IF acc.message # "" THEN SubSeq(acc.message, 1, Len(acc.message) - 1)
               ELSE ""
    IN  [hash          |-> hash,
         message       |-> msg,
         timestamp     |-> acc.timestamp,
         parent_hash   |-> acc.parent_hash,
         tracked_files |-> acc.tracked_files]

\* the messages a user may pass: one line, two lines, two lines with a blank between
SerialMessages == {"m", "a\nb", "a\n\nb"}

\* the parents of the commit written: none, one, two (a merge)
SerialParents == {<<>>, <<"sha1(p)">>, <<"sha1(p)", "sha1(q)">>}

\* MiniGit-Project.cpp creates a commit over the staged tree (commit, or merge with
\* add_parent for the second parent), writes its file and reads it back; what was read
\* is kept in commits
Serial_Project_store(msg, parents) ==
    /\ prog = "Project"
    /\ commits = EmptyMap
    /\ LET c1 == CommitNode(msg, IF parents = <<>> THEN "" ELSE parents[1], staging)
           c == IF Len(parents) = 2 THEN add_parent(c1, parents[2]) ELSE c1
           back == Project_parse_commit(Project_commit_text(c))
       IN  commits' = Put(commits, c.hash, StoredForm(back))
    /\ UNCHANGED <<prog, user, repo, heads_dir, HEAD, heads, blobs, index, staging, wt, now>>

\* MiniGit_Merge_Integrated.cpp does the same with serialize and deserialize
Serial_Integrated_store(msg, parent_h) ==
    /\ prog = "Integrated"
    /\ commits = EmptyMap
    /\ LET node == Integrated_CommitNode(msg, parent_h, staging)
           text == Integrated_serialize(node)
           h == Integrated_generate_simple_hash(text)
           back == Integrated_deserialize(h, text)
       IN  commits' = Put(commits, h,
                          [message       |-> back.message,
                           timestamp     |-> back.timestamp,
                           parent_hashes |-> IF back.parent_hash = "" THEN <<>>
                                             ELSE <<back.parent_hash>>,
                           tracked_files |-> back.tracked_files])
    /\ UNCHANGED <<prog, user, repo, heads_dir, HEAD, heads, blobs, index, staging, wt, now>>

\* a repository after init with some tree staged
InitSerial ==
    /\ prog \in {"Project", "Integrated"}
    /\ user = "clock"
    /\ repo = TRUE
    /\ heads_dir = TRUE
    /\ HEAD = "ref: refs/heads/master"
    /\ heads = [b \in BranchNames |-> NoFile]
    /\ blobs = EmptyMap
    /\ commits = EmptyMap
    /\ staging \in Trees(prog)
    /\ index = staging
    /\ wt = [p \in Paths |-> NoFile]
    /\ now = 0

NextSerial ==
    \/ \E msg \in SerialMessages : \E parents \in SerialParents :
           Serial_Project_store(msg, parents)
    \/ \E msg \in SerialMessages : \E parent_h \in {"", "h(p@0)"} :
           Serial_Integrated_store(msg, parent_h)

SpecSerial == InitSerial /\ [][NextSerial]_vars

----------------------------------------------------------------------------
\* C1: when merge <b> finds at least one conflicting path, the stored commits, every
\* branch ref and HEAD are the same after the merge as before it, in
\* MiniGit-Project.cpp and in part_002.
C1_ConflictLeavesRepository ==
    [][\A b \in BranchNames :
          /\ (/\ Project_merges(b)
              /\ \A base \in Project_bases(b) :
                     Project_conflicts(base, Project_ours, Project_theirs(b)) # {})
             => (commits' = commits /\ heads' = heads /\ HEAD' = HEAD)
          /\ (/\ Part002_merges(b)
              /\ conflict_files(Part002_base(b), Part002_ours, Part002_theirs(b)) # {})
             => (commits' = commits /\ heads' = heads /\ HEAD' = HEAD)
      ]_vars

\* one new commit with parents <<C, T>> is stored, the branch HEAD is attached to
\* (HEAD itself when detached) moves to it, and branch b still points to T
MergeCommitStored(C, T, b) ==
    \E h \in NewCommits :
        /\ DOMAIN commits' = DOMAIN commits \cup {h}
        /\ commits'[h].parent_hashes = <<C, T>>
        /\ IF StartsWith(HEAD, RefPrefix)
           THEN HEAD' = HEAD /\ heads'[Substr(HEAD, Len(RefPrefix))] = h
           ELSE HEAD' = h
        /\ heads'[b] = T

\* C2: a conflict-free merge <b> with HEAD at commit C and branch b at commit T, C # T,
\* stores exactly one new commit whose parent list is <<C, T>>, moves the branch HEAD is
\* attached to (or the detached HEAD) to it, and leaves branch b at T.
C2_MergeStoresOneCommit ==
    [][\A b \in BranchNames :
          /\ (/\ Project_merges(b)
              /\ get_head_commit_hash \in DOMAIN commits
              /\ heads[b] \in DOMAIN commits
              /\ \A base \in Project_bases(b) :
                     Project_conflicts(base, Project_ours, Project_theirs(b)) = {})
             => MergeCommitStored(get_head_commit_hash, heads[b], b)
          /\ (/\ Part002_merges(b)
              /\ get_head_hash \in DOMAIN commits
              /\ heads[b] \in DOMAIN commits
              /\ get_head_hash # heads[b]
              /\ conflict_files(Part002_base(b), Part002_ours, Part002_theirs(b)) = {})
             => MergeCommitStored(get_head_hash, heads[b], b)
      ]_vars

\* the tree has for every path outside the conflict rows what the table says: the
\* fingerprint to take, or no entry
FollowsTable(tree, base, ours, theirs) ==
    \A p \in DOMAIN base \cup DOMAIN ours \cup DOMAIN theirs :
        ~ConflictRow(At(base, p), At(ours, p), At(theirs, p)) =>
            IF TableResult(At(base, p), At(ours, p), At(theirs, p)) = ""
            THEN p \notin DOMAIN tree
            ELSE /\ p \in DOMAIN tree
                 /\ tree[p] = TableResult(At(base, p), At(ours, p), At(theirs, p))

\* C3: for every path and every combination (l, c, t) of base, ours and theirs that the
\* table does not mark as a conflict, the tree of the merge commit has t when only
\* theirs changed or added the path, c when only ours did or both agree, and no entry
\* when the path was removed on one side and unchanged on the other, or on both.
C3_MergedTreeFollowsTable ==
    [][\A b \in BranchNames :
          /\ Project_merges(b) =>
                \A h \in NewCommits :
                    \E base \in Project_bases(b) :
                        FollowsTable(commits'[h].tracked_files, base,
                                     Project_ours, Project_theirs(b))
          /\ Part002_merges(b) =>
                \A h \in NewCommits :
                    FollowsTable(commits'[h].tracked_files, Part002_base(b),
                                 Part002_ours, Part002_theirs(b))
      ]_vars

\* C4: a merge reports a conflict if and only if some path falls in one of the four
\* conflict rows of the three-way table (add/add, delete/modify, modify/delete,
\* modify/modify), in MiniGit-Project.cpp for whichever common ancestor it picks and
\* in part_002 for the ancestor find_lca returns.
C4_ConflictIffConflictRow ==
    [][\A b \in BranchNames :
          /\ Project_merges(b) =>
                \A base \in Project_bases(b) :
                    (Project_conflicts(base, Project_ours, Project_theirs(b)) # {})
                    <=> SomeConflictRow(base, Project_ours, Project_theirs(b))
          /\ Part002_merges(b) =>
                ((conflict_files(Part002_base(b), Part002_ours, Part002_theirs(b)) # {})
                 <=> SomeConflictRow(Part002_base(b), Part002_ours, Part002_theirs(b)))
      ]_vars

\* a merge of MiniGit-Project.cpp has found a conflict and left its markers
C4_Witness ==
    /\ prog = "Project"
    /\ \E p \in Paths : wt[p] # NoFile /\ StartsWith(wt[p], "<<<<<<< HEAD\n")
    /\ \E h \in DOMAIN commits : commits[h].parent_hashes = <<>>

\* C5: graph integrity: in every reachable state every parent fingerprint recorded in a
\* stored commit names a stored commit, and every fingerprint in a stored commit's tree
\* is non-empty and names a stored blob.
C5_GraphIntegrity ==
    \A h \in DOMAIN commits :
        /\ \A i \in 1..Len(commits[h].parent_hashes) :
               commits[h].parent_hashes[i] \in DOMAIN commits
        /\ \A p \in DOMAIN commits[h].tracked_files :
               /\ commits[h].tracked_files[p] # ""
               /\ commits[h].tracked_files[p] \in DOMAIN blobs

\* C6: the commit graph is acyclic in every reachable state: no stored commit is
\* reachable from itself over parent fingerprints, also when commits and merges are made
\* with the same message, tree and second.
C6_Acyclic ==
    \A h \in DOMAIN commits :
        h \notin AncestorClosure(Range(commits[h].parent_hashes))

\* C7: commits are immutable: what is stored under a fingerprint (message, timestamp,
\* parent list, tree) is never changed by a later operation.
C7_CommitsImmutable ==
    [][\A h \in DOMAIN commits :
          h \in DOMAIN commits' /\ commits'[h] = commits[h]]_vars

\* C8: HEAD validity: in every state after init HEAD is Unborn, or attached to an
\* existing branch that points to a stored commit, or detached onto the fingerprint of
\* a stored commit.
C8_HeadValid ==
    repo =>
        \/ Unborn
        \/ \E b \in BranchNames : Attached(b) /\ heads[b] \in DOMAIN commits
        \/ HEAD \in DOMAIN commits

\* C9: a commit made with HEAD attached to branch b leaves the ref of b at the
\* fingerprint of the new commit and HEAD attached to b, and every other ref unchanged.
C9_CommitMovesBranch ==
    [][\A m \in Messages : \A b \in BranchNames :
          ((Project_commit(m) \/ Part002_commit(m)) /\ Attached(b)) =>
              \A h \in NewCommits :
                  /\ heads'[b] = h
                  /\ HEAD' = HEAD
                  /\ \A o \in BranchNames \ {b} : heads'[o] = heads[o]
      ]_vars

\* the commit HEAD resolves to: the ref of the branch it is attached to, or HEAD itself
ResolvedHead ==
    IF StartsWith(HEAD, RefPrefix) THEN heads[Substr(HEAD, Len(RefPrefix))] ELSE HEAD

\* C10: the parent list of a commit created by commit is the commit HEAD resolved to
\* immediately before, and it is empty only when HEAD was Unborn.
C10_ParentIsHead ==
    [][\A m \in Messages :
          (Project_commit(m) \/ Part002_commit(m)) =>
              \A h \in NewCommits :
                  IF commits'[h].parent_hashes = <<>>
                  THEN Unborn
                  ELSE commits'[h].parent_hashes = <<ResolvedHead>>
      ]_vars
\* C11: the tree of a commit created by commit equals the index at the moment of the
\* commit, entry for entry: every staged path with its staged fingerprint and no other
\* path (the paths of the parent commit are not carried over).
C11_TreeIsIndex ==
    [][\A m \in Messages :
          (Project_commit(m) \/ Part002_commit(m)) =>
              \A h \in NewCommits : commits'[h].tracked_files = staging
      ]_vars

\* a commit made by commit whose parent tracks a path that it does not track itself
C11_Witness ==
    \E h \in DOMAIN commits :
        /\ Len(commits[h].parent_hashes) = 1
        /\ commits[h].parent_hashes[1] \in DOMAIN commits
        /\ DOMAIN commits[commits[h].parent_hashes[1]].tracked_files
               \ DOMAIN commits[h].tracked_files # {}

\* C12: after every successful commit the index is empty in memory and in the persisted
\* index file, so that a commit that follows immediately, in the same process or in a
\* new one, finds nothing to commit.
C12_CommitClearsIndex ==
    [][\A m \in Messages :
          ((Project_commit(m) \/ Part002_commit(m)) /\ staging # EmptyMap) =>
              /\ staging' = EmptyMap
              /\ index' = EmptyMap
              /\ load_staging_area' = EmptyMap
      ]_vars

\* MiniGit-Project.cpp has made a second commit and the index is empty again
C12_Witness ==
    /\ prog = "Project"
    /\ \E h \in DOMAIN commits : Len(commits[h].parent_hashes) = 1
    /\ staging = EmptyMap
    /\ index = EmptyMap

\* C13: the index survives process exit: every entry staged in one command invocation is
\* present, with the same fingerprint, in the index that the next invocation starts with.
C13_IndexSurvivesExit ==
    [][(NewProcess \/ Project_NewProcess) =>
           \A p \in DOMAIN staging : p \in DOMAIN staging' /\ staging'[p] = staging[p]
      ]_vars

\* C14: commit with an empty index changes nothing: no commit is stored, HEAD and every
\* branch ref are unchanged, and the index stays empty in memory and on disk.
C14_EmptyCommitChangesNothing ==
    [][\A m \in Messages :
          ((Project_commit(m) \/ Part002_commit(m)) /\ staging = EmptyMap) =>
              /\ commits' = commits
              /\ HEAD' = HEAD
              /\ heads' = heads
              /\ staging' = EmptyMap
              /\ index' = index
      ]_vars

\* a repository with a stored commit, HEAD on it, and nothing staged
C14_Witness ==
    /\ repo
    /\ staging = EmptyMap
    /\ ResolvedHead \in DOMAIN commits
    /\ \E p \in DOMAIN wt : wt[p] # NoFile

\* C15: add p for an existing file stores a blob holding the file's current content and
\* sets index[p] to that blob's fingerprint, replacing any earlier entry for p; every
\* other index entry, every blob already stored, HEAD, every branch ref and every stored
\* commit are unchanged.  add of a path that does not exist changes nothing of these.
C15_AddStagesOnePath ==
    [][\A p \in Paths : \A c \in Contents \cup {NoFile} :
          (Project_add(p, c) /\ repo) =>
              IF c # NoFile
              THEN /\ p \in DOMAIN staging'
                   /\ staging'[p] \in DOMAIN blobs'
                   /\ blobs'[staging'[p]] = c
                   /\ DOMAIN staging' = DOMAIN staging \cup {p}
                   /\ \A q \in DOMAIN staging \ {p} : staging'[q] = staging[q]
                   /\ index' = staging'
                   /\ \A b \in DOMAIN blobs : b \in DOMAIN blobs' /\ blobs'[b] = blobs[b]
                   /\ UNCHANGED <<HEAD, heads, commits>>
              ELSE UNCHANGED <<staging, index, blobs, HEAD, heads, commits>>
      ]_vars

\* two paths are staged, each with the content its file holds now
C15_Witness ==
    /\ prog = "Project"
    /\ DOMAIN staging = {"f", "g"}
    /\ \A p \in DOMAIN staging : staging[p] \in DOMAIN blobs /\ blobs[staging[p]] = wt[p]

\* C16: index consistency: in every reachable state every fingerprint held in the index,
\* in memory or in the persisted index file, names a blob present in the object store.
C16_IndexConsistency ==
    /\ \A p \in DOMAIN staging : staging[p] \in DOMAIN blobs
    /\ \A p \in DOMAIN index : index[p] \in DOMAIN blobs

\* C17: after checkout of a branch that has a commit HEAD is attached to that branch,
\* and after checkout of the fingerprint of a stored commit HEAD is detached onto exactly
\* that fingerprint; in both cases no branch ref changes.
C17_CheckoutSetsHead ==
    [][\A t \in BranchNames \cup DOMAIN commits :
          (Project_checkout(t) \/ Part002_checkout(t)) =>
              /\ (t \in BranchNames /\ heads[t] \notin {NoFile, ""}) =>
                     HEAD' = "ref: refs/heads/" \o t /\ heads' = heads
              /\ (t \in DOMAIN commits) =>
                     HEAD' = t /\ heads' = heads
      ]_vars

\* HEAD is detached onto a stored commit that is the tip of no branch, while the default
\* branch has a commit of its own
C17_Witness ==
    /\ HEAD \in DOMAIN commits
    /\ \A b \in BranchNames : heads[b] # HEAD
    /\ heads[DefaultBranch] \in DOMAIN commits

\* C18: checkout t where t is neither an existing branch nor the fingerprint of a stored
\* commit leaves HEAD, every branch ref, the index and the working tree unchanged.
C18_UnknownTargetChangesNothing ==
    [][\A t \in Targets :
          ((Project_checkout(t) \/ Part002_checkout(t))
              /\ ~(t \in BranchNames /\ heads[t] # NoFile)
              /\ t \notin DOMAIN commits) =>
                 UNCHANGED <<HEAD, heads, index, staging, wt>>
      ]_vars

\* the commit a checkout target names: the first line of the branch file, or the target
CheckoutCommit(t) == IF t \in BranchNames /\ heads[t] # NoFile THEN heads[t] ELSE t

\* C19: checkout round trip: for every commit K made from staged files and every path p
\* of K's tree, after a checkout of K the working-tree file p holds exactly the bytes of
\* the blob K records for p, which are the bytes p had when it was added; this includes
\* content with no trailing newline and empty content.
C19_CheckoutRoundTrip ==
    [][\A t \in BranchNames \cup DOMAIN commits :
          ((Project_checkout(t) \/ Part002_checkout(t) \/ Part000_checkout(t))
              /\ CheckoutCommit(t) \in DOMAIN commits
              /\ Len(commits[CheckoutCommit(t)].parent_hashes) < 2) =>
                 \A p \in DOMAIN commits[CheckoutCommit(t)].tracked_files :
                    /\ commits[CheckoutCommit(t)].tracked_files[p] \in DOMAIN blobs
                    /\ wt'[p] = blobs[commits[CheckoutCommit(t)].tracked_files[p]]
      ]_vars

\* the paths of the files in the working tree
WorkingFiles(tree) == {p \in Paths : tree[p] # NoFile}

\* the paths the table gives an entry, for three trees without a conflict row
TablePaths(base, ours, theirs) ==
    {p \in DOMAIN base \cup DOMAIN ours \cup DOMAIN theirs :
        TableResult(At(base, p), At(ours, p), At(theirs, p)) # ""}

\* C20: the cleaning policy is the same for checkout and for the materialization after a
\* merge: after a checkout of a stored commit the files of the working tree are exactly
\* the paths of that commit's tree, and after a conflict-free merge they are exactly the
\* paths of the merged tree, so a file the target lacks or the merge deleted is gone.
C20_WorkingTreeIsTree ==
    [][/\ \A t \in BranchNames \cup DOMAIN commits :
             ((Project_checkout(t) \/ Part002_checkout(t))
                 /\ CheckoutCommit(t) \in DOMAIN commits) =>
                    WorkingFiles(wt') = DOMAIN commits[CheckoutCommit(t)].tracked_files
       /\ \A b \in BranchNames :
             /\ (/\ Project_merges(b)
                 /\ get_head_commit_hash \in DOMAIN commits
                 /\ heads[b] \in DOMAIN commits
                 /\ \A base \in Project_bases(b) :
                        Project_conflicts(base, Project_ours, Project_theirs(b)) = {})
                => \E base \in Project_bases(b) :
                       WorkingFiles(wt') = TablePaths(base, Project_ours, Project_theirs(b))
             /\ (/\ Part002_merges(b)
                 /\ get_head_hash \in DOMAIN commits
                 /\ heads[b] \in DOMAIN commits
                 /\ conflict_files(Part002_base(b), Part002_ours, Part002_theirs(b)) = {})
                => WorkingFiles(wt') = TablePaths(Part002_base(b), Part002_ours,
                                                  Part002_theirs(b))
      ]_vars

\* C21: checkout never changes the index: after any checkout, successful or failed, the
\* in-memory index and the persisted index file are what they were before it.
C21_CheckoutKeepsIndex ==
    [][\A t \in Targets :
          (Project_checkout(t) \/ Part002_checkout(t)) =>
              /\ staging' = staging
              /\ index' = index
              /\ load_staging_area' = load_staging_area
      ]_vars

\* MiniGit-Project.cpp: HEAD is detached onto a stored commit while an entry is staged
C21_Witness ==
    /\ prog = "Project"
    /\ HEAD \in DOMAIN commits
    /\ staging # EmptyMap
    /\ index = staging

\* C22: branch n for a new name n, when HEAD resolves to the stored commit C, creates the
\* ref n pointing to C and leaves HEAD, every other branch ref, the index, the object
\* store and the working tree unchanged.
C22_BranchCreatesRef ==
    \A n \in BranchNames :
        (heads[n] = NoFile /\ ResolvedHead \in DOMAIN commits) =>
            ~ENABLED (/\ Project_branch(n) \/ Part002_branch(n)
                      /\ ~(/\ heads' = [heads EXCEPT ![n] = ResolvedHead]
                           /\ UNCHANGED <<HEAD, index, staging, blobs, commits, wt>>))

\* C23: in every reachable state every existing branch ref either is the empty ref of the
\* default branch while no commit exists yet, or holds the fingerprint of a stored
\* commit; so branch n before any commit exists creates no ref.
C23_RefsNameCommits ==
    \A b \in BranchNames :
        heads[b] # NoFile =>
            \/ heads[b] \in DOMAIN commits
            \/ b = DefaultBranch /\ heads[b] = "" /\ commits = EmptyMap

\* C24 as stated: branch n where n already names a branch leaves the ref of n pointing to
\* the commit it pointed to before, even if HEAD has since moved to another commit.
C24_ExistingBranchKept ==
    [][\A n \in BranchNames :
          ((Project_branch(n) \/ Part002_branch(n)) /\ heads[n] # NoFile) =>
              heads'[n] = heads[n]
      ]_vars

\* C24, amended: branch n where n already names a branch follows the semantics the
\* program chose: MiniGit-Project.cpp reports the branch and changes nothing; part_002
\* warns and rewrites the ref of n with the commit HEAD resolves to, or changes nothing
\* when HEAD resolves to no commit.  HEAD, every other ref, the index, the object store
\* and the working tree are unchanged either way.
C24_ExistingBranchStrictOrOverwritten ==
    [][\A n \in BranchNames :
          heads[n] # NoFile =>
              /\ Project_branch(n) => UNCHANGED vars
              /\ Part002_branch(n) =>
                    /\ heads' = IF get_head_hash = "" THEN heads
                                ELSE [heads EXCEPT ![n] = get_head_hash]
                    /\ UNCHANGED <<HEAD, index, staging, blobs, commits, wt>>
      ]_vars

\* part_002: dev exists and points to another stored commit than the one HEAD, attached
\* to main, resolves to
C24_Witness ==
    /\ prog = "Part002"
    /\ Attached("main")
    /\ heads["main"] \in DOMAIN commits
    /\ heads["dev"] \in DOMAIN commits
    /\ heads["dev"] # heads["main"]

\* C25: merge identity: merge b while HEAD resolves to the commit branch b points to, in
\* particular a merge of the current branch into itself, stores no commit and leaves
\* HEAD, every branch ref, the index and the working tree unchanged.
C25_MergeIdentity ==
    [][\A b \in BranchNames :
          ((Project_merge(b) \/ Part002_merge(b))
              /\ heads[b] \in DOMAIN commits
              /\ ResolvedHead = heads[b]) =>
                 UNCHANGED <<commits, HEAD, heads, index, staging, wt>>
      ]_vars

\* C26: blob storage is deterministic and idempotent: the same content stored twice, at
\* any two times and in any two invocations, gets the same fingerprint, so the object
\* store never holds two blobs with the same content.
C26_OneBlobPerContent ==
    \A b1, b2 \in DOMAIN blobs : blobs[b1] = blobs[b2] => b1 = b2

\* C27: commit serialization round-trips: for every commit the program can create (a
\* message of one or several lines, blank lines included; zero, one or two parents; any
\* tree over whitespace-free paths), reading back its stored form yields the same
\* message, timestamp, ordered parent list and tree.
C27_SerializationRoundTrip ==
    [][/\ \A msg \in SerialMessages : \A parents \in SerialParents :
             Serial_Project_store(msg, parents) =>
                 \A h \in NewCommits :
                     /\ commits'[h].message = msg
                     /\ commits'[h].timestamp = format_timestamp(now)
                     /\ commits'[h].parent_hashes = parents
                     /\ commits'[h].tracked_files = staging
       /\ \A msg \in SerialMessages : \A parent_h \in {"", "h(p@0)"} :
             Serial_Integrated_store(msg, parent_h) =>
                 \A h \in NewCommits :
                     /\ commits'[h].message = msg
                     /\ commits'[h].timestamp = Integrated_timestamp
                     /\ commits'[h].parent_hashes =
                            (IF parent_h = "" THEN <<>> ELSE <<parent_h>>)
                     /\ commits'[h].tracked_files = staging
      ]_vars

\* the first-parent chain of the stored commits from h on, newest first, followed for at
\* most n commits: it ends with a commit that has no parent or whose first parent is
\* not stored
RECURSIVE FirstParentChain(_, _)
FirstParentChain(h, n) ==
    IF n = 0 \/ h \notin DOMAIN commits THEN <<>>
    ELSE <<h>> \o (IF commits[h].parent_hashes = <<>> THEN <<>>
                   ELSE FirstParentChain(commits[h].parent_hashes[1], n - 1))

\* what log prints, for the program that runs
LogOutput == IF prog = "Project" THEN Project_log ELSE Part002_log

\* C28: log prints exactly the first-parent chain of the commit HEAD resolves to, newest
\* first, and stops: the list is finite and ends after the first commit that has no
\* parent or cannot be read.
C28_LogIsFirstParentChain ==
    /\ LogOutput = FirstParentChain(ResolvedHead, LogLimit)
    /\ Len(LogOutput) < LogLimit

\* the commit step completed: HEAD resolves to another commit than before, one that is
\* stored and whose tree is the staged entries
CommitCompleted ==
    /\ ResolvedHead' # ResolvedHead
    /\ ResolvedHead' \in DOMAIN commits'
    /\ commits'[ResolvedHead'].tracked_files = staging

\* C29: a commit of staged entries that fails to write the commit object or the ref
\* leaves the index untouched, still holding the staged entries, and leaves HEAD
\* resolving to nothing or to a stored commit.
C29_FailedCommitKeepsIndex ==
    [][\A m \in Messages :
          ((Project_commit(m) \/ Part002_commit(m)) /\ staging # EmptyMap /\ ~CommitCompleted) =>
              /\ index' = index
              /\ staging' = staging
              /\ ResolvedHead' \in DOMAIN commits' \cup {"", NoFile}]_vars

\* the command lines of a user
CommandLines ==
    {<<"minigit", "add", p>> : p \in Paths}
        \cup {<<"minigit", "commit", "-m", m>> : m \in Messages}
        \cup {<<"minigit", c, n>> : c \in {"checkout", "branch", "merge"},
                                    n \in BranchNames \cup {"nosuch"}}

\* the branch n has a reference file
BranchExists(n) == n \in BranchNames /\ heads[n] # NoFile

\* merge <n> meets a conflict row or finds no common ancestor
MergeFails(n) ==
    /\ BranchExists(n)
    /\ heads[n] \in DOMAIN commits
    /\ ResolvedHead \in DOMAIN commits
    /\ ResolvedHead # heads[n]
    /\ IF prog = "Project"
       THEN \/ find_common_ancestor(ResolvedHead, heads[n]) = {""}
            \/ \E base \in Project_bases(n) : SomeConflictRow(base, Project_ours, Project_theirs(n))
       ELSE \/ find_lca(ResolvedHead, heads[n]) = ""
            \/ SomeConflictRow(Part002_base(n), Part002_ours, Part002_theirs(n))

\* the user-facing failures: add of a missing file, commit with an empty index, checkout
\* of an unknown target, branch before any commit, merge with conflicts or without a
\* common ancestor
UserFacingFailure(argv) ==
    \/ argv[2] = "add" /\ wt[argv[3]] = NoFile
    \/ argv[2] = "commit" /\ staging = EmptyMap
    \/ argv[2] = "checkout" /\ ~BranchExists(argv[3]) /\ argv[3] \notin DOMAIN commits
    \/ argv[2] = "branch" /\ ResolvedHead \notin DOMAIN commits
    \/ argv[2] = "merge" /\ MergeFails(argv[3])

\* the exit status of the program that runs
ExitStatus(argv) == IF prog = "Project" THEN Project_main(argv) ELSE Part002_main(argv)

\* C30: in an initialized repository every command that meets a user-facing failure ends
\* with a non-zero exit status.
C30_FailureExitsNonZero ==
    repo => \A argv \in CommandLines : UserFacingFailure(argv) => ExitStatus(argv) # 0

\* the content of the path p at the commit whose tree is tree, empty when absent
ContentAt(tree, p) ==
    IF p \in DOMAIN tree /\ tree[p] \in DOMAIN blobs THEN blobs[tree[p]] ELSE ""

\* the conflict-marked file for the two contents; a content that does not end its last
\* line may or may not be given the line end
ConflictMarked(c, t) ==
    {"<<<<<<< OURS\n" \o c \o "=======\n" \o t \o ">>>>>>> THEIRS\n",
     "<<<<<<< OURS\n" \o c \o "\n=======\n" \o t \o "\n>>>>>>> THEIRS\n"}

\* C31: after a merge the working-tree file of every conflicting path is the line
\* <<<<<<< OURS, the content at HEAD's commit, the line =======, the content at the tip
\* of the merged branch, the line >>>>>>> THEIRS, and nothing else.
C31_ConflictFileMarked ==
    [][\A b \in BranchNames : \A p \in Paths :
          /\ (/\ Project_merges(b)
              /\ \A base \in Project_bases(b) :
                     ConflictRow(At(base, p), At(Project_ours, p), At(Project_theirs(b), p)))
             => wt'[p] \in ConflictMarked(ContentAt(Project_ours, p),
                                           ContentAt(Project_theirs(b), p))
          /\ (/\ Part002_merges(b)
              /\ ConflictRow(At(Part002_base(b), p), At(Part002_ours, p),
                             At(Part002_theirs(b), p)))
             => wt'[p] \in ConflictMarked(ContentAt(Part002_ours, p),
                                           ContentAt(Part002_theirs(b), p))]_vars

\* the file that holds the blob of fingerprint h
Materialized(h) == IF h \in DOMAIN blobs THEN blobs[h] ELSE NoFile

\* C32: after a merge that had conflicts, every path of the merged result that is in no
\* conflict row is a working-tree file with its merged content; a path taken from the
\* merged branch holds that branch's content.
C32_CleanPathsMaterialized ==
    [][\A b \in BranchNames : \A p \in Paths :
          /\ (/\ Project_merges(b)
              /\ \A base \in Project_bases(b) :
                     /\ SomeConflictRow(base, Project_ours, Project_theirs(b))
                     /\ ~ConflictRow(At(base, p), At(Project_ours, p), At(Project_theirs(b), p))
                     /\ TableResult(At(base, p), At(Project_ours, p),
                                    At(Project_theirs(b), p)) # "")
             => \E base \in Project_bases(b) :
                    wt'[p] = Materialized(TableResult(At(base, p), At(Project_ours, p),
                                                      At(Project_theirs(b), p)))
          /\ (/\ Part002_merges(b)
              /\ SomeConflictRow(Part002_base(b), Part002_ours, Part002_theirs(b))
              /\ ~ConflictRow(At(Part002_base(b), p), At(Part002_ours, p),
                              At(Part002_theirs(b), p))
              /\ TableResult(At(Part002_base(b), p), At(Part002_ours, p),
                             At(Part002_theirs(b), p)) # "")
             => wt'[p] = Materialized(TableResult(At(Part002_base(b), p), At(Part002_ours, p),
                                                  At(Part002_theirs(b), p)))]_vars

\* no stored commit is a merge commit
NoMergeCommits == \A h \in DOMAIN commits : Len(commits[h].parent_hashes) <= 1

\* the stored commits that are ancestors of both a and b, each its own ancestor
CommonAncestors(a, b) == AncestorClosure({a}) \cap AncestorClosure({b}) \cap DOMAIN commits

\* x is a common ancestor of a and b of which no proper descendant is one as well
NearestCommonAncestor(x, a, b) ==
    /\ x \in CommonAncestors(a, b)
    /\ \A d \in CommonAncestors(a, b) : d # x => x \notin AncestorClosure({d})

\* the bases merge <b> may take
MergeBases(b) ==
    IF prog = "Project" THEN find_common_ancestor(get_head_commit_hash, heads[b])
    ELSE {find_lca(get_head_hash, heads[b])}

\* C33: in a history without merge commits the base merge uses for HEAD's commit and the
\* tip of the merged branch is a nearest common ancestor of the two, never an older one.
C33_BaseIsNearest ==
    \A b \in BranchNames :
        (/\ NoMergeCommits
         /\ ResolvedHead \in DOMAIN commits
         /\ heads[b] \in DOMAIN commits
         /\ ResolvedHead # heads[b])
        => \A base \in MergeBases(b) :
               base # "" => NearestCommonAncestor(base, ResolvedHead, heads[b])

\* the results the common-ancestor computation may give for the commits a and b
CommonAncestorResults(a, b) ==
    IF prog = "Project" THEN find_common_ancestor(a, b) ELSE {find_lca(a, b)}

\* C34: in a history without merge commits the common ancestor computed for two different
\* stored commits (A, B) is the one computed for (B, A), whichever run computes it.
C34_LcaSymmetric ==
    NoMergeCommits =>
        \A a, b \in DOMAIN commits :
            a # b => \A x \in CommonAncestorResults(a, b) :
                         \A y \in CommonAncestorResults(b, a) : x = y

\* C35: log terminates in every reachable state: the first-parent walk from HEAD ends
\* before it has printed more commits than a repository can hold, and prints no commit
\* twice.
C35_LogTerminates ==
    /\ Len(LogOutput) < LogLimit
    /\ \A i, j \in 1..Len(LogOutput) : LogOutput[i] = LogOutput[j] => i = j

\* C36: a commit made while HEAD is detached onto the stored commit D stores a commit of
\* the staged entries with the parent list [D], writes the new fingerprint into HEAD, which
\* stays detached, and changes no branch ref.
C36_DetachedCommit ==
    [][\A m \in Messages :
          ((Project_commit(m) \/ Part002_commit(m)) /\ HEAD \in DOMAIN commits
               /\ staging # EmptyMap) =>
              /\ HEAD' \in DOMAIN commits'
              /\ HEAD' # HEAD
              /\ commits'[HEAD'].parent_hashes = <<HEAD>>
              /\ commits'[HEAD'].tracked_files = staging
              /\ heads' = heads]_vars

\* HEAD is detached onto a commit with a parent that no branch reaches
C36_Witness ==
    /\ HEAD \in DOMAIN commits
    /\ commits[HEAD].parent_hashes # <<>>
    /\ \A b \in BranchNames : HEAD \notin AncestorClosure({heads[b]})

\* C37: when the tip T of the merged branch is an ancestor of HEAD's commit C and not C
\* itself, merge meets no conflict and stores a commit with the parents [C, T] whose tree
\* map agrees with the tree map of C on every path.
C37_MergeOfAncestorKeepsOurs ==
    [][\A b \in BranchNames :
          ((Project_merge(b) \/ Part002_merge(b))
               /\ ResolvedHead \in DOMAIN commits
               /\ heads[b] \in DOMAIN commits
               /\ heads[b] # ResolvedHead
               /\ heads[b] \in AncestorClosure({ResolvedHead})) =>
              /\ ResolvedHead' \in DOMAIN commits'
              /\ commits'[ResolvedHead'].parent_hashes = <<ResolvedHead, heads[b]>>
              /\ \A p \in Paths :
                     At(commits'[ResolvedHead'].tracked_files, p)
                         = At(commits[ResolvedHead].tracked_files, p)]_vars

\* the checkout target t resolves: it is a branch with a reference file or the name of
\* a stored object
TargetResolves(t) ==
    \/ t \in BranchNames /\ heads[t] # NoFile
    \/ t \in DOMAIN commits \cup DOMAIN blobs

\* C38: checkout is all-or-nothing: when the target resolves but no commit object can be
\* read for it, HEAD keeps its value and the working tree keeps its files.
C38_CheckoutAllOrNothing ==
    [][\A t \in Targets :
          ((Project_checkout(t) \/ Part002_checkout(t))
               /\ TargetResolves(t)
               /\ CheckoutCommit(t) \notin DOMAIN commits) =>
              /\ HEAD' = HEAD
              /\ wt' = wt]_vars

\* every stored blob and every stored commit is still stored, with the same content
ObjectsKept ==
    /\ \A h \in DOMAIN blobs : h \in DOMAIN blobs' /\ blobs'[h] = blobs[h]
    /\ \A h \in DOMAIN commits : h \in DOMAIN commits' /\ commits'[h] = commits[h]

\* C39: cleaning the working tree never touches the repository: a checkout leaves the
\* stored blobs, the stored commits, the branch refs and the index file as they were, a
\* merge leaves every branch ref but that of the current branch as it was, and no
\* operation removes or alters a stored blob or a stored commit.
C39_RepositoryUntouched ==
    [][/\ ObjectsKept
       /\ \A t \in Targets :
              (Project_checkout(t) \/ Part002_checkout(t)) =>
                  UNCHANGED <<blobs, commits, heads, index>>
       /\ \A b \in BranchNames :
              (Project_merge(b) \/ Part002_merge(b)) =>
                  \A n \in BranchNames : ~Attached(n) => heads'[n] = heads[n]]_vars
=============================================================================
